---- MODULE Spec2Model ----
(***************************************************************************)
(* SE3Control (rotorpy/controllers/quadrotor_control.py): construction of  *)
(* the rotor allocation matrix and its inverse, and the per-step update.   *)
(*                                                                         *)
(* Numbers.  A float is modelled in fixed point: the integer v stands for  *)
(* v / SCALE (two decimals).  A product or quotient is rounded once,       *)
(* toward zero.  NaN is one extra value that every operation propagates.   *)
(* k_eta and k_m are held in units of 1e-7, rotor speeds in whole rad/s,   *)
(* quaternions of the state as integer 4-tuples (from_quat normalises).    *)
(***************************************************************************)
EXTENDS Integers, Sequences, FiniteSets, TLC

\* ------------------------------------------------------------- numbers
SCALE == 100
NaN == -2000000000
KUnitInv == 10000000

IsNaN(x) == x = NaN
Abs(x) == IF x < 0 THEN -x ELSE x
Sign(x) == IF IsNaN(x) THEN NaN ELSE IF x > 0 THEN 1 ELSE IF x < 0 THEN -1 ELSE 0
\* a / b rounded toward zero, b # 0
Quot(a, b) == IF (a < 0) = (b < 0) THEN Abs(a) \div Abs(b) ELSE -(Abs(a) \div Abs(b))

FAdd(a, b) == IF IsNaN(a) \/ IsNaN(b) THEN NaN ELSE a + b
FSub(a, b) == IF IsNaN(a) \/ IsNaN(b) THEN NaN ELSE a - b
FNeg(a) == IF IsNaN(a) THEN NaN ELSE -a
FMul(a, b) == IF IsNaN(a) \/ IsNaN(b) THEN NaN ELSE Quot(a * b, SCALE)
\* 0/0 is nan; x/0 with x # 0 is +-inf in numpy, which no call below produces
\* (a norm is 0 only for the zero vector), so it is folded into NaN.
FDiv(a, b) == IF IsNaN(a) \/ IsNaN(b) \/ b = 0 THEN NaN ELSE Quot(a * SCALE, b)
FAbs(a) == IF IsNaN(a) THEN NaN ELSE Abs(a)

RECURSIVE SqrtSearch(_, _, _)
SqrtSearch(n, lo, hi) ==
    IF lo >= hi THEN lo
    ELSE LET mid == (lo + hi + 1) \div 2
         IN  IF mid * mid <= n THEN SqrtSearch(n, mid, hi) ELSE SqrtSearch(n, lo, mid - 1)
\* floor of the square root of the natural number n
ISqrt(n) == SqrtSearch(n, 0, IF n < 46340 THEN n ELSE 46340)

\* ------------------------------------------------------------- vectors
Vec3(a, b, c) == <<a, b, c>>
HasNaN(v) == \E i \in DOMAIN v : IsNaN(v[i])
VAdd(u, v) == [i \in DOMAIN u |-> FAdd(u[i], v[i])]
VSub(u, v) == [i \in DOMAIN u |-> FSub(u[i], v[i])]
VNeg(u) == [i \in DOMAIN u |-> FNeg(u[i])]
VMul(u, v) == [i \in DOMAIN u |-> FMul(u[i], v[i])]
VScale(s, v) == [i \in DOMAIN v |-> FMul(s, v[i])]
RECURSIVE FSum(_, _)
FSum(v, n) == IF n = 0 THEN 0 ELSE FAdd(FSum(v, n - 1), v[n])
Dot(u, v) == FSum(VMul(u, v), Len(u))
\* np.cross
Cross(u, v) == <<FSub(FMul(u[2], v[3]), FMul(u[3], v[2])),
                 FSub(FMul(u[3], v[1]), FMul(u[1], v[3])),
                 FSub(FMul(u[1], v[2]), FMul(u[2], v[1]))>>
\* np.linalg.norm: sqrt(sum (v_i/SCALE)^2) * SCALE = sqrt(sum v_i^2)
RECURSIVE SumSq(_, _)
SumSq(v, n) == IF n = 0 THEN 0 ELSE SumSq(v, n - 1) + v[n] * v[n]
Norm(v) == IF HasNaN(v) THEN NaN ELSE ISqrt(SumSq(v, Len(v)))

\* 3x3 matrices are tuples of rows
MatVec(M, v) == [i \in DOMAIN M |-> Dot(M[i], v)]
Transpose(M) == [i \in 1..3 |-> [j \in 1..3 |-> M[j][i]]]
Col(M, j) == [i \in DOMAIN M |-> M[i][j]]
MatMul(A, B) == [i \in 1..3 |-> [j \in 1..3 |-> Dot(A[i], Col(B, j))]]
MatSub(A, B) == [i \in 1..3 |-> VSub(A[i], B[i])]
MatHasNaN(M) == \E i \in DOMAIN M : HasNaN(M[i])

\* ------------------------------------------------------------- gains
g == 981
kp_pos == <<650, 650, 1500>>
kd_pos == <<400, 400, 900>>
kp_att == 54400
kd_att == 4664

\* ------------------------------------------------------------- inputs
MaxT == 1

\* rotor_pos maps (lists in iteration order), positions in fixed-point metres
Geometries ==
    { <<Vec3(10, 10, 0), Vec3(-10, 10, 0), Vec3(-10, -10, 0), Vec3(10, -10, 0)>>,
      <<Vec3(20, 10, 5), Vec3(-10, 20, 0), Vec3(-20, -10, -5), Vec3(10, -20, 0)>>,
      <<Vec3(10, 0, 0), Vec3(20, 0, 0), Vec3(-10, 0, 0), Vec3(-20, 0, 0)>>,
      <<Vec3(10, 10, 0), Vec3(-10, 10, 0), Vec3(0, -10, 0)>>,
      <<Vec3(10, 10, 0), Vec3(-10, 10, 0), Vec3(-10, -10, 0), Vec3(10, -10, 0),
        Vec3(0, 20, 0)>> }
Masses == {-400, 400}
\* <<Ixx, Iyy, Izz, Ixy, Ixz, Iyz>>
Inertias == { <<1, 1, 2, 0, 0, 0>> }
\* <<k_eta, k_m>> in units of 1e-7
Coefficients == { <<10, 1>>, <<0, 1>> }

QuadParams ==
    { [mass |-> m, Ixx |-> I[1], Iyy |-> I[2], Izz |-> I[3],
       Ixy |-> I[4], Ixz |-> I[5], Iyz |-> I[6],
       num_rotors |-> Len(rp), rotor_pos |-> rp, k_eta |-> kk[1], k_m |-> kk[2]] :
      m \in Masses, I \in Inertias, rp \in Geometries, kk \in Coefficients }

\* --------------------------------------------------- SE3Control.__init__
\* variant: the operands of the cross product swapped
CrossZ_swapped(p) == SubSeq(Cross(Vec3(0, 0, SCALE), p), 1, 2)

\* np.cross(rotor_pos[key], [0,0,1]).reshape(-1,1)[0:2]: the x,y components
CrossZ(p) == SubSeq(Cross(p, Vec3(0, 0, SCALE)), 1, 2)

\* variant: the yaw-moment sign does not alternate
YawSign_same(i) == 1

\* k*(-1)**i for the i-th rotor, i from 0
YawSign(i) == IF i % 2 = 0 THEN 1 ELSE -1

\* the 4 x N matrix of line 63, as four rows
AllocMatrix(k, num_rotors, rotor_pos) ==
    << [i \in 1..num_rotors |-> SCALE],
       [i \in 1..Len(rotor_pos) |-> CrossZ(rotor_pos[i])[1]],
       [i \in 1..Len(rotor_pos) |-> CrossZ(rotor_pos[i])[2]],
       [i \in 1..num_rotors |-> k * YawSign(i - 1)] >>

RemoveAt(s, i) == [n \in 1..(Len(s) - 1) |-> IF n < i THEN s[n] ELSE s[n + 1]]
Minor(M, i, j) == [r \in 1..(Len(M) - 1) |-> RemoveAt(RemoveAt(M, i)[r], j)]
\* exact determinants of integer matrices (Laplace expansion, first row)
Det2(M) == M[1][1] * M[2][2] - M[1][2] * M[2][1]
Det3(M) == M[1][1] * (M[2][2] * M[3][3] - M[2][3] * M[3][2])
         - M[1][2] * (M[2][1] * M[3][3] - M[2][3] * M[3][1])
         + M[1][3] * (M[2][1] * M[3][2] - M[2][2] * M[3][1])
Det(M) ==
    CASE Len(M) = 1 -> M[1][1]
      [] Len(M) = 2 -> Det2(M)
      [] Len(M) = 3 -> Det3(M)
      [] Len(M) = 4 -> M[1][1] * Det3(Minor(M, 1, 1)) - M[1][2] * Det3(Minor(M, 1, 2))
                     + M[1][3] * Det3(Minor(M, 1, 3)) - M[1][4] * Det3(Minor(M, 1, 4))
Cofactor(M, i, j) == (IF (i + j) % 2 = 0 THEN 1 ELSE -1) * Det(Minor(M, i, j))

IsSquare(M) == \A i \in DOMAIN M : Len(M[i]) = Len(M)

\* np.linalg.inv of a square matrix whose first row is all ones: the exact
\* inverse adj(M)/det(M), each entry rounded once.  Every term of the
\* determinant of the fixed-point matrix holds one factor SCALE (row 0), so
\* Det(M) \div SCALE is exact; the entry in real units is
\* SCALE * Cofactor / Det, and SCALE times that in fixed point.
InvEntries(M) ==
    LET d == Det(M) \div SCALE
    IN  [i \in 1..Len(M) |-> [j \in 1..Len(M) |-> Quot(SCALE * Cofactor(M, j, i), d)]]

\* variant: a pseudo-inverse, which never raises
Inv_pinv(M) ==
    IF ~IsSquare(M) THEN [ok |-> TRUE, val |-> M]
    ELSE IF Det(M) = 0 THEN [ok |-> TRUE, val |-> M]
    ELSE [ok |-> TRUE, val |-> InvEntries(M)]

\* np.linalg.inv: raises LinAlgError for a non-square or singular matrix
Inv(M) ==
    IF ~IsSquare(M) THEN [ok |-> FALSE, err |-> "LinAlgError"]
    ELSE IF Det(M) = 0 THEN [ok |-> FALSE, err |-> "LinAlgError"]
    ELSE [ok |-> TRUE, val |-> InvEntries(M)]

\* the fields __init__ sets that update reads
NewSelf(qp, k, f_to_TM, TM_to_f) ==
    [mass |-> qp.mass,
     inertia |-> << <<qp.Ixx, qp.Ixy, qp.Ixz>>,
                    <<qp.Ixy, qp.Iyy, qp.Iyz>>,
                    <<qp.Ixz, qp.Iyz, qp.Izz>> >>,
     g |-> g, kp_pos |-> kp_pos, kd_pos |-> kd_pos,
     kp_att |-> kp_att, kd_att |-> kd_att,
     num_rotors |-> qp.num_rotors, rotor_pos |-> qp.rotor_pos,
     k_eta |-> qp.k_eta, k_m |-> qp.k_m,
     f_to_TM |-> f_to_TM, TM_to_f |-> TM_to_f]

\* SE3Control.__init__: the instance, or the exception that leaves none
Construct(qp) ==
    IF qp.k_eta = 0 THEN [ok |-> FALSE, err |-> "ZeroDivisionError"]
    ELSE LET k == Quot(qp.k_m * SCALE, qp.k_eta)
             f_to_TM == AllocMatrix(k, qp.num_rotors, qp.rotor_pos)
             inv == Inv(f_to_TM)
         IN  IF ~inv.ok THEN [ok |-> FALSE, err |-> inv.err]
             ELSE [ok |-> TRUE, self |-> NewSelf(qp, k, f_to_TM, inv.val)]

\* ------------------------------------------------------ update: inputs
Zero3 == Vec3(0, 0, 0)
\* state dicts: q is [i, j, k, w]
States ==
    { [x |-> Zero3, v |-> Zero3, q |-> <<0, 0, 0, 1>>, w |-> Zero3],
      [x |-> Zero3, v |-> Zero3, q |-> <<0, 0, 1, 2>>, w |-> Zero3],
      [x |-> Vec3(0, SCALE, 0), v |-> Vec3(0, 0, 50), q |-> <<1, 0, 0, 2>>,
       w |-> Vec3(0, 0, SCALE)] }
\* yaw angles are fixed-point radians: 0 and 0.93 = atan(4/3)
FlatOutputs ==
    { [x |-> Zero3, x_dot |-> Zero3, x_ddot |-> Zero3, yaw |-> 0, yaw_dot |-> 0],
      [x |-> Zero3, x_dot |-> Zero3, x_ddot |-> Zero3, yaw |-> 93, yaw_dot |-> 0],
      [x |-> Zero3, x_dot |-> Zero3, x_ddot |-> Vec3(0, 0, -g), yaw |-> 0,
       yaw_dot |-> 0],
      [x |-> Zero3, x_dot |-> Zero3, x_ddot |-> Vec3(g, 0, -g), yaw |-> 0,
       yaw_dot |-> 0],
      [x |-> Zero3, x_dot |-> Zero3, x_ddot |-> Vec3(g, 0, 0), yaw |-> 0,
       yaw_dot |-> SCALE] }
Times == 0..MaxT

\* np.cos, np.sin on the yaw angles above
Cos(yaw) == CASE yaw = 0 -> 100 [] yaw = 93 -> 60
Sin(yaw) == CASE yaw = 0 -> 0 [] yaw = 93 -> 80

\* --------------------------------------------------- update: functions
\* normalize(x): x / np.linalg.norm(x); 0/0 is nan
Normalize(x) == LET n == Norm(x) IN [i \in DOMAIN x |-> FDiv(x[i], n)]

\* vee_map(S)
VeeMap(S) == Vec3(FNeg(S[2][3]), S[1][3], FNeg(S[1][2]))

\* Rotation.from_quat(q).as_matrix(): q is normalised, then the usual
\* polynomial form; each entry P/|q|^2 is rounded once
QuatToMatrix(q) ==
    LET x == q[1]  y == q[2]  z == q[3]  w == q[4]
        n == x * x + y * y + z * z + w * w
        E(p) == Quot(p * SCALE, n)
    IN  << <<E(x*x - y*y - z*z + w*w), E(2 * (x*y - z*w)), E(2 * (x*z + y*w))>>,
           <<E(2 * (x*y + z*w)), E(-x*x + y*y - z*z + w*w), E(2 * (y*z - x*w))>>,
           <<E(2 * (x*z - y*w)), E(2 * (y*z + x*w)), E(-x*x - y*y + z*z + w*w)>> >>

\* np.argmax: the first index of the largest entry
ArgMax(d) == CHOOSE i \in DOMAIN d :
                /\ \A j \in DOMAIN d : d[j] <= d[i]
                /\ \A j \in DOMAIN d : j < i => d[j] < d[i]

\* Rotation.from_matrix(M).as_quat(): nan in, nan out
MatrixToQuat(M) ==
    IF MatHasNaN(M) THEN <<NaN, NaN, NaN, NaN>>
    ELSE LET tr == M[1][1] + M[2][2] + M[3][3]
             c == ArgMax(<<M[1][1], M[2][2], M[3][3], tr>>)
             i == c
             j == (i % 3) + 1
             k == (j % 3) + 1
             raw == IF c = 4
                    THEN <<M[3][2] - M[2][3], M[1][3] - M[3][1],
                           M[2][1] - M[1][2], SCALE + tr>>
                    ELSE [n \in 1..4 |->
                            IF n = i THEN SCALE - tr + 2 * M[i][i]
                            ELSE IF n = j THEN M[j][i] + M[i][j]
                            ELSE IF n = k THEN M[k][i] + M[i][k]
                            ELSE M[k][j] - M[j][k]]
         IN  Normalize(raw)

\* variant: the acceleration is not multiplied by the mass
DesiredForce_nomass(self, a) ==
    LET pos_err == VSub(a.state.x, a.flat_output.x)
        dpos_err == VSub(a.state.v, a.flat_output.x_dot)
    IN  VAdd(VAdd(VSub(VNeg(VMul(self.kp_pos, pos_err)),
                       VMul(self.kd_pos, dpos_err)),
                  a.flat_output.x_ddot),
             Vec3(0, 0, self.g))

\* variant: the desired force depends on the time argument
DesiredForce_t(self, a) ==
    LET pos_err == VSub(a.state.x, a.flat_output.x)
        dpos_err == VSub(a.state.v, a.flat_output.x_dot)
    IN  VScale(self.mass,
               VAdd(VAdd(VSub(VNeg(VMul(self.kp_pos, pos_err)),
                              VMul(self.kd_pos, dpos_err)),
                         a.flat_output.x_ddot),
                    Vec3(0, 0, self.g + a.t)))

\* lines 108-113
DesiredForce(self, a) ==
    LET pos_err == VSub(a.state.x, a.flat_output.x)
        dpos_err == VSub(a.state.v, a.flat_output.x_dot)
    IN  VScale(self.mass,
               VAdd(VAdd(VSub(VNeg(VMul(self.kp_pos, pos_err)),
                              VMul(self.kd_pos, dpos_err)),
                         a.flat_output.x_ddot),
                    Vec3(0, 0, self.g)))

\* lines 116-118: u1 = F_des . (R @ [0,0,1])
Thrust(F_des, R) == Dot(F_des, MatVec(R, Vec3(0, 0, SCALE)))

\* lines 121-126: R_des as rows (np.stack([b1, b2, b3]).T)
DesiredRotation(F_des, yaw_des) ==
    LET b3_des == Normalize(F_des)
        c1_des == Vec3(Cos(yaw_des), Sin(yaw_des), 0)
        b2_des == Normalize(Cross(b3_des, c1_des))
        b1_des == Cross(b2_des, b3_des)
    IN  Transpose(<<b1_des, b2_des, b3_des>>)

\* lines 129-130
AttitudeError(R_des, R) ==
    LET D == MatSub(MatMul(Transpose(R_des), R), MatMul(Transpose(R), R_des))
        S_err == [i \in 1..3 |-> [j \in 1..3 |-> FMul(50, D[i][j])]]
    IN  VeeMap(S_err)

\* lines 133-137
Moment(self, a, att_err) ==
    LET w_des == Vec3(0, 0, a.flat_output.yaw_dot)
        w_err == VSub(a.state.w, w_des)
    IN  MatVec(self.inertia,
               VSub(VScale(-self.kp_att, att_err), VScale(self.kd_att, w_err)))

\* line 141: TM_to_f @ TM
MotorForces(self, u1, u2) ==
    LET TM == <<u1, u2[1], u2[2], u2[3]>>
    IN  [i \in 1..Len(self.TM_to_f) |-> Dot(self.TM_to_f[i], TM)]

\* line 142: force (fixed-point N) / k_eta (1e-7 units), in whole (rad/s)^2
ForceOverKEta(f, k_eta) ==
    IF IsNaN(f) THEN NaN ELSE Quot(f * (KUnitInv \div SCALE), k_eta)

\* variant: the sign is dropped
SignedSqrt_unsigned(x) == IF IsNaN(x) THEN NaN ELSE ISqrt(Abs(x))

\* line 143: np.sign(x) * np.sqrt(np.abs(x))
SignedSqrt(x) == IF IsNaN(x) THEN NaN ELSE Sign(x) * ISqrt(Abs(x))

MotorSpeeds(self, forces) ==
    [i \in DOMAIN forces |-> SignedSqrt(ForceOverKEta(forces[i], self.k_eta))]

\* ------------------------------------------------------------- state
VARIABLES
    ctor,     \* "new", then "ok" or "failed" once __init__ has run
    qp,       \* the quad_params __init__ was called with (<<>> before)
    err,      \* the exception __init__ raised ("" if none)
    ctrl,     \* <<>> or <<the SE3Control instance>>
    frames    \* per caller: the locals of its update call in progress

vars == <<ctor, qp, err, ctrl, frames>>

Callers == {1, 2}

IdleFrame == [pc |-> "idle"]

\* lines 94-97: a call's locals at entry
EnterFrame(a) ==
    [pc |-> "law", a |-> a,
     cmd_motor_speeds |-> <<0, 0, 0, 0>>, cmd_thrust |-> 0,
     cmd_moment |-> Zero3, cmd_q |-> <<0, 0, 0, 0>>]

\* lines 108-137
ControlLawStep(self, fr) ==
    LET F_des == DesiredForce(self, fr.a)
        R == QuatToMatrix(fr.a.state.q)
        R_des == DesiredRotation(F_des, fr.a.flat_output.yaw)
    IN  [pc |-> "alloc", a |-> fr.a,
         cmd_motor_speeds |-> fr.cmd_motor_speeds, cmd_thrust |-> fr.cmd_thrust,
         cmd_moment |-> fr.cmd_moment, cmd_q |-> fr.cmd_q,
         F_des |-> F_des, R |-> R, u1 |-> Thrust(F_des, R), R_des |-> R_des,
         u2 |-> Moment(self, fr.a, AttitudeError(R_des, R))]

\* lines 140-147, on the thrust u1 and moment u2
Allocate(self, fr, u1, u2) ==
    LET cmd_motor_forces == MotorForces(self, u1, u2)
    IN  [pc |-> "return", a |-> fr.a,
         F_des |-> fr.F_des, R |-> fr.R, u1 |-> fr.u1, R_des |-> fr.R_des,
         u2 |-> fr.u2,
         cmd_motor_forces |-> cmd_motor_forces,
         cmd_motor_speeds |-> MotorSpeeds(self, cmd_motor_forces),
         cmd_thrust |-> u1, cmd_moment |-> u2,
         cmd_q |-> MatrixToQuat(fr.R_des)]

\* variant: u1 and u2 are kept in one scratch place that all calls share
AllocStep_shared(self, fr) ==
    LET src == IF frames[1].pc \in {"alloc", "return"} THEN frames[1] ELSE fr
    IN  Allocate(self, fr, src.u1, src.u2)

\* lines 140-147: the call's own u1 and u2
AllocStep(self, fr) == Allocate(self, fr, fr.u1, fr.u2)

\* lines 149-152: the dict update returns
ControlInput(fr) ==
    [cmd_motor_speeds |-> fr.cmd_motor_speeds, cmd_thrust |-> fr.cmd_thrust,
     cmd_moment |-> fr.cmd_moment, cmd_q |-> fr.cmd_q]

\* a whole update call on its own
RunAlone(self, a) ==
    AllocStep(self, ControlLawStep(self, EnterFrame(a)))

Init ==
    /\ ctor = "new"
    /\ qp = <<>>
    /\ err = ""
    /\ ctrl = <<>>
    /\ frames = [c \in Callers |-> IdleFrame]

\* SE3Control(quad_params)
DoConstruct ==
    /\ ctor = "new"
    /\ \E p \in QuadParams :
          LET r == Construct(p)
          IN  /\ qp' = p
              /\ ctor' = IF r.ok THEN "ok" ELSE "failed"
              /\ err' = IF r.ok THEN "" ELSE r.err
              /\ ctrl' = IF r.ok THEN <<r.self>> ELSE <<>>
    /\ UNCHANGED frames

\* controller.update(t, state, flat_output) is entered
Call(c) ==
    /\ ctor = "ok"
    /\ frames[c].pc = "idle"
    /\ \E t \in Times, st \in States, fo \in FlatOutputs :
          frames' = [frames EXCEPT
                       ![c] = EnterFrame([t |-> t, state |-> st, flat_output |-> fo])]
    /\ UNCHANGED <<ctor, qp, err, ctrl>>

StepControlLaw(c) ==
    /\ frames[c].pc = "law"
    /\ frames' = [frames EXCEPT ![c] = ControlLawStep(ctrl[1], frames[c])]
    /\ UNCHANGED <<ctor, qp, err, ctrl>>

StepAlloc(c) ==
    /\ frames[c].pc = "alloc"
    /\ frames' = [frames EXCEPT ![c] = AllocStep(ctrl[1], frames[c])]
    /\ UNCHANGED <<ctor, qp, err, ctrl>>

\* line 153
Return(c) ==
    /\ frames[c].pc = "return"
    /\ frames' = [frames EXCEPT ![c] = IdleFrame]
    /\ UNCHANGED <<ctor, qp, err, ctrl>>

Next ==
    \/ DoConstruct
    \/ \E c \in Callers : Call(c)
    \/ \E c \in Callers : StepControlLaw(c)
    \/ \E c \in Callers : StepAlloc(c)
    \/ \E c \in Callers : Return(c)

Spec == Init /\ [][Next]_vars

\* ------------------------------------------------------------ properties
Returning(c) == frames[c].pc = "return"
PastOrient(c) == frames[c].pc \in {"alloc", "return"}
OutputHasNaN(fr) ==
    \/ HasNaN(fr.cmd_motor_speeds)
    \/ IsNaN(fr.cmd_thrust)
    \/ HasNaN(fr.cmd_moment)
    \/ HasNaN(fr.cmd_q)

QuadX == <<Vec3(10, 10, 0), Vec3(-10, 10, 0), Vec3(-10, -10, 0), Vec3(10, -10, 0)>>

\* the two moment-arm rows (y_i) and (-x_i) are linearly dependent
MomentRowsDependent(rp) ==
    \E a \in -2..2, b \in -2..2 :
        /\ a # 0 \/ b # 0
        /\ \A i \in 1..Len(rp) : a * rp[i][2] - b * rp[i][1] = 0

NotInvertible(p) ==
    \/ Len(p.rotor_pos) # 4
    \/ MomentRowsDependent(p.rotor_pos)
    \/ Det(AllocMatrix(Quot(p.k_m * SCALE, p.k_eta), p.num_rotors, p.rotor_pos)) = 0
\* tabulated once over the parameter sets
NotInvertibleParams == {p \in QuadParams : p.k_eta # 0 /\ NotInvertible(p)}

PositiveDefinite(I) ==
    /\ I[1][1] > 0
    /\ I[1][1] * I[2][2] - I[1][2] * I[2][1] > 0
    /\ Det(I) > 0

\* C2 (as claimed): an instance exists only for positive mass, positive
\* definite inertia and at least 4 rotors.
C2_ConfigurationRejected ==
    ctor = "ok" =>
        /\ qp.mass > 0
        /\ PositiveDefinite(ctrl[1].inertia)
        /\ qp.num_rotors >= 4

\* the vehicle parameters the data model calls valid
ValidVehicle == qp.mass > 0 /\ PositiveDefinite(ctrl[1].inertia)

FreeFall(a) ==
    /\ a.state.x = a.flat_output.x
    /\ a.state.v = a.flat_output.x_dot
    /\ a.flat_output.x_ddot = Vec3(0, 0, -g)

\* C3 (as claimed): on a valid vehicle, a call whose desired force is the
\* zero vector (zero errors, x_ddot = [0,0,-g]) returns a command with no
\* NaN field.
C3_ZeroForceDefined ==
    \A c \in Callers :
        (Returning(c) /\ ValidVehicle /\ FreeFall(frames[c].a)
           /\ frames[c].F_des = Zero3)
            => ~OutputHasNaN(frames[c])

\* c1_des points along the (non-zero) horizontal component of F_des
YawAligned(fr) ==
    LET F == fr.F_des
        cy == Cos(fr.a.flat_output.yaw)
        sy == Sin(fr.a.flat_output.yaw)
    IN  /\ ~HasNaN(F)
        /\ F[1] # 0 \/ F[2] # 0
        /\ F[1] * sy - F[2] * cy = 0
        /\ F[1] * cy + F[2] * sy > 0

\* C4 (as claimed): on a valid vehicle, with the yaw reference along the
\* horizontal projection of the desired thrust, b2_des is not the normal
\* construction normalize(b3_des x c1_des).
C4_AlignmentFallback ==
    \A c \in Callers :
        (PastOrient(c) /\ ValidVehicle /\ YawAligned(frames[c]))
            => Col(frames[c].R_des, 2) #
                 Normalize(Cross(Normalize(frames[c].F_des),
                                 Vec3(Cos(frames[c].a.flat_output.yaw),
                                      Sin(frames[c].a.flat_output.yaw), 0)))

\* rotation about world z by yaw
Rz(yaw) == << <<Cos(yaw), -Sin(yaw), 0>>,
              <<Sin(yaw), Cos(yaw), 0>>,
              <<0, 0, SCALE>> >>

Hovering(fr) ==
    /\ fr.a.state.x = fr.a.flat_output.x
    /\ fr.a.state.v = fr.a.flat_output.x_dot
    /\ fr.a.flat_output.x_ddot = Zero3
    /\ fr.a.state.w = Zero3
    /\ fr.a.flat_output.yaw_dot = 0
    /\ fr.R = Rz(fr.a.flat_output.yaw)
    /\ fr.R_des = fr.R

\* C5: a call with zero position, velocity and rate errors, zero desired
\* acceleration, and the current orientation equal to the desired one (the
\* rotation about z by the desired yaw) returns thrust mass*g and zero moment.
C5_HoverThrustAndMoment ==
    \A c \in Callers :
        (Returning(c) /\ Hovering(frames[c]))
            => /\ frames[c].cmd_thrust = FMul(ctrl[1].mass, g)
               /\ frames[c].cmd_moment = Zero3

C5_Witness ==
    \E c \in Callers :
        /\ Returning(c)
        /\ Hovering(frames[c])
        /\ frames[c].a.flat_output.yaw = 93
        /\ frames[c].cmd_thrust = 3924

\* C6: for the 0.1 m X geometry with k_eta = 1e-6, k_m = 1e-7, construction
\* succeeds, and for a positive mass the inverse maps the hover wrench
\* [mass*g, 0, 0, 0] to four equal, strictly positive forces of mass*g/4.
C6_HoverAllocation ==
    (ctor # "new" /\ qp.rotor_pos = QuadX /\ qp.k_eta = 10 /\ qp.k_m = 1)
        => /\ ctor = "ok"
           /\ qp.mass > 0 =>
                LET f == MotorForces(ctrl[1], FMul(qp.mass, g), Zero3)
                IN  /\ Len(f) = 4
                    /\ \A i \in 1..4 : f[i] > 0 /\ f[i] = f[1]
                                       /\ 4 * f[i] = FMul(qp.mass, g)

C6_Witness ==
    /\ ctor = "ok"
    /\ qp.rotor_pos = QuadX
    /\ qp.k_eta = 10 /\ qp.k_m = 1
    /\ qp.mass = 400
    /\ MotorForces(ctrl[1], 3924, Zero3) = <<981, 981, 981, 981>>

SameInputs(a, b) == a.state = b.state /\ a.flat_output = b.flat_output

\* C7: whatever calls came before and whatever t is, a call returns what a
\* freshly constructed controller returns for the same state and flat_output;
\* two calls with the same state and flat_output return the same command.
C7_NoHiddenState ==
    /\ \A c \in Callers :
          Returning(c) =>
              ControlInput(frames[c]) =
                  ControlInput(RunAlone(Construct(qp).self,
                                        [frames[c].a EXCEPT !.t = 0]))
    /\ \A c, d \in Callers :
          (Returning(c) /\ Returning(d) /\ SameInputs(frames[c].a, frames[d].a))
              => ControlInput(frames[c]) = ControlInput(frames[d])

C7_Witness ==
    /\ Returning(1) /\ Returning(2)
    /\ SameInputs(frames[1].a, frames[2].a)
    /\ frames[1].a.t # frames[2].a.t
    /\ frames[1].a.state.w # Zero3
    /\ ~OutputHasNaN(frames[1])
    /\ ControlInput(frames[1]) = ControlInput(frames[2])

\* C8: under every interleaving of the steps of the callers' update calls,
\* no step changes a field of the controller, and each call returns the
\* command it returns when run alone.
C8_ConcurrentCallsIndependent ==
    /\ [](\A c \in Callers :
            Returning(c) =>
                ControlInput(frames[c]) =
                    ControlInput(RunAlone(ctrl[1], frames[c].a)))
    /\ [][ctor = "ok" => ctrl' = ctrl]_vars

C8_Witness ==
    /\ Returning(1)
    /\ frames[2].pc = "alloc"
    /\ ~SameInputs(frames[1].a, frames[2].a)
    /\ ~OutputHasNaN(frames[1])

FiniteForces(fr) == \A i \in 1..4 : ~IsNaN(fr.cmd_motor_forces[i])

\* C9 (as claimed): on a valid vehicle each speed has the sign of its force
\* and sign(s) * s^2 = f, to the resolution of the whole-number speed.
C9_SpeedSquaredIsForce ==
    \A c \in Callers :
        (Returning(c) /\ ValidVehicle /\ FiniteForces(frames[c])) =>
            \A i \in 1..4 :
                LET f == frames[c].cmd_motor_forces[i]
                    s == frames[c].cmd_motor_speeds[i]
                IN  /\ Sign(s) = Sign(f)
                    /\ s * s <= Abs(f) \div SCALE
                    /\ Abs(f) \div SCALE < (Abs(s) + 1) * (Abs(s) + 1)

\* C9 (amended): each speed is defined, has the sign of its force (k_eta
\* is positive) and sign(s) * s^2 = f / k_eta, to the resolution of the
\* whole-number speed.
C9_SpeedSquaredIsForceOverKEta ==
    \A c \in Callers :
        (Returning(c) /\ FiniteForces(frames[c])) =>
            \A i \in 1..4 :
                LET f == frames[c].cmd_motor_forces[i]
                    s == frames[c].cmd_motor_speeds[i]
                    k == ctrl[1].k_eta
                IN  /\ ~IsNaN(s)
                    /\ Sign(s) = Sign(f)
                    /\ s * s * k <= Abs(f) * (KUnitInv \div SCALE)
                    /\ Abs(f) * (KUnitInv \div SCALE) < (Abs(s) + 1) * (Abs(s) + 1) * k

C9_Witness ==
    \E c \in Callers :
        /\ Returning(c)
        /\ FiniteForces(frames[c])
        /\ \E i, j \in 1..4 : /\ frames[c].cmd_motor_forces[i] > 0
                              /\ frames[c].cmd_motor_speeds[i] > 0
                              /\ frames[c].cmd_motor_forces[j] < 0
                              /\ frames[c].cmd_motor_speeds[j] < 0

\* C10: after a successful construction f_to_TM is 4 x N with, for the i-th
\* rotor (from 0) at (x, y, z): 1, y, -x and (k_m/k_eta) * (-1)^i.
C10_AllocationMatrixLayout ==
    ctor = "ok" =>
        LET M == ctrl[1].f_to_TM
            rp == qp.rotor_pos
        IN  /\ Len(M) = 4
            /\ \A r \in 1..4 : Len(M[r]) = Len(rp)
            /\ \A i \in 1..Len(rp) :
                  /\ M[1][i] = SCALE
                  /\ M[2][i] = rp[i][2]
                  /\ M[3][i] = -rp[i][1]
                  /\ M[4][i] * qp.k_eta =
                        qp.k_m * SCALE * (IF i % 2 = 1 THEN 1 ELSE -1)

C10_Witness ==
    /\ ctor = "ok"
    /\ \E i \in 1..Len(qp.rotor_pos) : qp.rotor_pos[i][3] # 0
    /\ ctrl[1].f_to_TM[4][1] > 0
    /\ ctrl[1].f_to_TM[4][2] < 0

====
